---- MODULE Spec2Model ----
(***************************************************************************)
(* Model of getListIterator (src/src/getListIterator.ts): a cursor helper  *)
(* over an externally owned list.  next()/back() are built with            *)
(* beforeCall(before, fn): `before` runs synchronously, then the async     *)
(* `fn` starts, reads the scope and later assigns nextIndex.  The switch   *)
(* callback is run by the timer of delayed(...) or by back()'s before      *)
(* phase.                                                                  *)
(*                                                                         *)
(* beforeCall and delayed are imported (lines 1-2) from files outside src/; *)
(* they are modelled as the specification describes them: before() then    *)
(* fn() in one synchronous step, and one timer that delay() (re)starts,    *)
(* cancel() stops and isPending reports.                                   *)
(*                                                                         *)
(* A call reads the scope when it is made (getSize() and getCurrentIndex() *)
(* are invoked before the await) and its continuation runs at any later    *)
(* moment, in any order with other continuations and the timer, as an      *)
(* asynchronous scope allows.                                              *)
(*                                                                         *)
(* An optional JavaScript value (undefined or v) is the set {} or {v}.     *)
(*                                                                         *)
(* The module also models the Try class (src/unnamed/part_001): Try.of,    *)
(* Try.success, Try.failure, get and getOrElse on one Try reference, under *)
(* its own specification TrySpec.  The completion of a call is a record    *)
(* [kind, value]: it returned value or threw value.                        *)
(***************************************************************************)
EXTENDS Integers, Sequences, FiniteSets, TLC

\* Bounds of the model.
MaxSize == 3        \* scope sizes 0..MaxSize
MaxCalls == 4       \* calls made on one handle
MaxInFlight == 2    \* next()/back() calls whose scope query has not resolved

\* A delay a caller may pass (any positive number of milliseconds).
SomeDelay == 10

MaxValue == 5       \* values a thunk returns or throws: 0..MaxValue

VARIABLES
    size,           \* scope.getSize()
    currentIndex,   \* scope.getCurrentIndex()
    options,        \* the constructor's options argument
    nextIndex,      \* let nextIndex (line 32): the stored pending target
    timer,          \* delayedNext: [pending, wait]
    calls,          \* next()/back() calls awaiting their scope query
    answer,         \* what the last isCanNext()/isCanBack() resolved to
    failure,        \* the last call whose scope query failed, and how its
                    \* promise settled
    log,            \* history: the onSwitch invocations, in order
    ncalls,         \* history: number of calls made on the handle
    last,           \* history: the most recent next()/back()/cancel() call
    burst,          \* history: len(log) when the current burst of next() began
    seq,            \* history: every call so far was a non-looping next()
                    \* made with no call in flight and no timer pending
    latest,         \* history: candidate of the most recently issued
                    \* next()/back() call, {} before any
    looped,         \* history: some next() ran with a truthy loop
    armed,          \* history: a next() found a valid candidate, and no
                    \* timer fire, cancel() or back() came after it
    cur0,           \* history: the scope's index at construction
    thunk,          \* Try: what the thunk given to Try.of does
    result,         \* Try: completion of the call that made the Try
    got             \* Try: completion of the last get()/getOrElse()

iterVars == <<size, currentIndex, options, nextIndex, timer, calls, answer,
              failure, log, ncalls, last, burst, seq, latest, looped, armed,
              cur0>>

tryVars == <<thunk, result, got>>

vars == <<iterVars, tryVars>>

----------------------------------------------------------------------------
\* JavaScript values

Undefined == {}
OptBool == {Undefined, {TRUE}, {FALSE}}
OptDelay == {Undefined, {SomeDelay}}
ListIteratorOptions == [delay : OptDelay, loop : OptBool]

\* The options arguments handles are constructed with: none, a looping
\* default, and a non-looping default with a delay.
ConstructorOptions ==
    {[delay |-> Undefined, loop |-> Undefined],
     [delay |-> Undefined, loop |-> {TRUE}],
     [delay |-> {SomeDelay}, loop |-> {FALSE}]}

\* A default parameter or `a ?? b`: b when a is undefined.
Default(a, b) == IF a = Undefined THEN b ELSE a

\* The value held by a defined optional.
Val(a) == CHOOSE v \in a : TRUE

\* `loop ? x : y` takes x only for a truthy loop.
Truthy(a) == a = {TRUE}

Min(a, b) == IF a <= b THEN a ELSE b

----------------------------------------------------------------------------
\* The scope's owner and the switch callback

\* onSwitch(idx) as the owner sees it: the owner adopts a valid index and,
\* since getCurrentIndex() returns a non-negative integer, ignores -1.
OwnerIndex(idx, cur) == IF idx >= 0 THEN idx ELSE cur

Invocation(idx, by) == [idx |-> idx, by |-> by, cur |-> currentIndex]

----------------------------------------------------------------------------
\* delayed(fn, 0): one cancellable, re-delayable timer

TimerIdle == [pending |-> FALSE, wait |-> 0]

DelayedDelay(t, wait) == [pending |-> TRUE, wait |-> wait]

DelayedCancel(t) == TimerIdle

----------------------------------------------------------------------------
\* Candidate indices (lines 34-46)

\* The forward candidate without the Math.min clamp.
getNextItemUnclamped(loop, sz, cur) ==
    IF cur = sz - 1 THEN (IF Truthy(loop) THEN 0 ELSE -1)
    ELSE cur + 1

getNextItem(loop, sz, cur) ==
    IF cur = sz - 1 THEN (IF Truthy(loop) THEN 0 ELSE -1)
    ELSE Min(cur + 1, sz - 1)

getPrevItem(loop, sz, cur) ==
    IF cur = 0 THEN (IF Truthy(loop) THEN sz - 1 ELSE -1)
    ELSE Min(cur - 1, sz - 1)

----------------------------------------------------------------------------
\* Queries (lines 48-54)

\* A query that keeps the candidate it computed as the pending target.
AfterQueryStoresCandidate(stored, candidate) == candidate

\* nextIndex after isCanNext()/isCanBack(): the candidate is compared with 0
\* and dropped (lines 49 and 53), nothing is assigned.
AfterQuery(stored, candidate) == stored

isCanNext(o, sz, cur) == getNextItem(Undefined, sz, cur) >= 0

isCanBack(sz, cur) == getPrevItem(Undefined, sz, cur) >= 0

----------------------------------------------------------------------------
\* The synchronous parts of next(), back() and cancel()

\* The delay next's before phase uses (lines 64-65): the call's option, else
\* the constructor's, else 0.
NextDelay(o) == Val(Default(Default(o.delay, options.delay), {0}))

\* A before phase that starts the timer whatever is stored.
NextBeforeAlways(o, stored, t) == DelayedDelay(t, NextDelay(o))

\* next's before phase (lines 64-66): the timer it leaves.
NextBefore(o, stored, t) ==
    IF stored >= 0 THEN DelayedDelay(t, NextDelay(o)) ELSE t

\* The loop flag next's body passes to getNextItem (line 67).
NextLoop(o) == Default(o.loop, options.loop)

\* back's before phase (lines 73-75): does it invoke onSwitch(stored)?
BackBefore(stored) == stored >= 0

\* A back() whose body forgets cancel().
BackBodyKeepsTimer(t) == t

\* The first statement of back's body (line 77): the timer it leaves.
BackBody(t) == DelayedCancel(t)

\* A back() that passes the constructor's loop default on.
BackLoopDefault == options.loop

\* The loop flag back's body passes to getPrevItem (line 78): none.
BackLoop == Undefined

\* A cancel() that stops only timers with a positive delay.
cancelKeepsZeroDelay(t) == IF t.wait > 0 THEN DelayedCancel(t) ELSE t

\* A cancel() that leaves the timer running.
cancelKeepsTimer(t) == t

\* cancel() (line 61): the timer it leaves.
cancel(t) == DelayedCancel(t)

\* A failed scope query that is swallowed and stored as "no move".
AfterRejectionResets(stored) == -1

\* nextIndex after the await of line 68 or 78 threw: the assignment is not
\* reached, the stored target is kept.
AfterRejection(stored) == stored

\* How the promise of an async function settles (lines 34-54, 67-69, 76-79:
\* no try/catch around the awaits).
Outcome(queryOk) == IF queryOk THEN "fulfilled" ELSE "rejected"

\* The value a resolved call assigns to nextIndex (lines 68 and 78).
Candidate(c) ==
    IF c.op = "next" THEN getNextItem(c.loop, c.size, c.cur)
    ELSE getPrevItem(c.loop, c.size, c.cur)

----------------------------------------------------------------------------
\* History records

NoCall == [op |-> "none", loop |-> Undefined, cur |-> 0, n |-> 0,
           stored |-> -1, pend |-> FALSE, cancelled |-> FALSE]

CallRecord(op, loop) ==
    [op |-> op, loop |-> loop, cur |-> currentIndex,
     n |-> Len(log), stored |-> nextIndex, pend |-> timer.pending,
     cancelled |-> (last.op = "cancel" /\ last.pend)]

NoAnswer == [op |-> "none", loop |-> FALSE, cur |-> 0, res |-> FALSE]

NoFailure == [op |-> "none", outcome |-> "none"]

Failed(op) == [op |-> op, outcome |-> Outcome(FALSE)]

----------------------------------------------------------------------------
\* Try (src/unnamed/part_001)

Value == 0..MaxValue

Return(v) == [kind |-> "return", value |-> v]

Throw(v) == [kind |-> "throw", value |-> v]

\* A thunk returns a value or throws one.
Thunks == {Return(v) : v \in Value} \cup {Throw(v) : v \in Value}

NoThunk == [kind |-> "none", value |-> 0]

\* The constructor (lines 93-96) called by Success (lines 400-406).
Success(value) == [isSuccessTag |-> TRUE, value |-> value]

\* A Failure built with the tag of a Success.
FailureTaggedSuccess(error) == Success(error)

\* The constructor called by Failure (lines 412-418).
Failure(error) == [isSuccessTag |-> FALSE, value |-> error]

isSuccess(t) == t.isSuccessTag

isFailure(t) == ~isSuccess(t)

\* Try.of(thunk) (lines 65-71): try { Success(thunk()) } catch (e) { Failure(e) }.
tryOf(th) ==
    IF th.kind = "return" THEN Return(Success(th.value))
    ELSE Return(Failure(th.value))

\* Try.success(value) (lines 77-79).
trySuccess(value) == Return(Success(value))

\* Try.failure(error) (lines 85-87).
tryFailure(error) == Return(Failure(error))

\* get() (lines 123-126).
tryGet(t) == IF isFailure(t) THEN Throw(t.value) ELSE Return(t.value)

\* getOrElse(fallback) (lines 137-139).
tryGetOrElse(t, fallback) == Return(IF isSuccess(t) THEN t.value ELSE fallback)

NoTry == [kind |-> "none", value |-> Failure(0)]

NotCalled == [op |-> "none", kind |-> "none", value |-> 0]

Called(op, completion) ==
    [op |-> op, kind |-> completion.kind, value |-> completion.value]

----------------------------------------------------------------------------
Init ==
    /\ size \in 0..MaxSize
    /\ currentIndex \in 0..(IF size = 0 THEN 0 ELSE size - 1)
    /\ cur0 = currentIndex
    /\ options \in ConstructorOptions
    /\ nextIndex = -1
    /\ timer = TimerIdle
    /\ calls = {}
    /\ answer = NoAnswer
    /\ failure = NoFailure
    /\ log = <<>>
    /\ ncalls = 0
    /\ last = NoCall
    /\ burst = 0
    /\ seq = TRUE
    /\ latest = {}
    /\ armed = FALSE
    /\ looped = FALSE
    /\ thunk = NoThunk
    /\ result = NoTry
    /\ got = NotCalled

\* next(o): the before phase, then the body up to its await.
Next(o) ==
    /\ ncalls < MaxCalls
    /\ Cardinality(calls) < MaxInFlight
    /\ LET loop == NextLoop(o)
           t == NextBefore(o, nextIndex, timer)
       IN  /\ timer' = t
           /\ calls' = calls \cup {[id |-> ncalls + 1, op |-> "next", loop |-> loop,
                                    size |-> size, cur |-> currentIndex]}
           /\ last' = CallRecord("next", loop)
           /\ armed' = (armed \/ getNextItem(loop, size, currentIndex) >= 0)
           /\ burst' = IF timer.pending THEN burst ELSE Len(log)
           /\ latest' = {getNextItem(loop, size, currentIndex)}
           /\ seq' = (seq /\ calls = {} /\ ~timer.pending /\ ~Truthy(loop))
           /\ looped' = (looped \/ Truthy(loop))
    /\ ncalls' = ncalls + 1
    /\ UNCHANGED tryVars
    /\ UNCHANGED <<size, currentIndex, options, nextIndex, answer, failure, log,
                   cur0>>

\* back(): the before phase (onSwitch at once), then the body up to its await:
\* cancel(), and the scope is read after the owner has seen onSwitch.
Back ==
    /\ ncalls < MaxCalls
    /\ Cardinality(calls) < MaxInFlight
    /\ LET switch == BackBefore(nextIndex)
           cur1 == IF switch THEN OwnerIndex(nextIndex, currentIndex) ELSE currentIndex
       IN  /\ log' = IF switch THEN Append(log, Invocation(nextIndex, "back")) ELSE log
           /\ currentIndex' = cur1
           /\ calls' = calls \cup {[id |-> ncalls + 1, op |-> "back", loop |-> BackLoop,
                                    size |-> size, cur |-> cur1]}
           /\ latest' = {getPrevItem(BackLoop, size, cur1)}
    /\ timer' = BackBody(timer)
    /\ last' = CallRecord("back", BackLoop)
    /\ armed' = FALSE
    /\ seq' = FALSE
    /\ ncalls' = ncalls + 1
    /\ UNCHANGED tryVars
    /\ UNCHANGED <<size, options, nextIndex, answer, failure, burst, looped,
                   cur0>>

\* The scope query of call c resolves and its body assigns nextIndex.
Resolve(c) ==
    /\ c \in calls
    /\ nextIndex' = Candidate(c)
    /\ calls' = calls \ {c}
    /\ UNCHANGED tryVars
    /\ UNCHANGED <<size, currentIndex, options, timer, answer, failure, log,
                   ncalls, last, burst, seq, latest, looped, armed, cur0>>

\* The scope query of call c fails: the await throws, the body ends there
\* and the call's promise is rejected.
Reject(c) ==
    /\ c \in calls
    /\ nextIndex' = AfterRejection(nextIndex)
    /\ calls' = calls \ {c}
    /\ failure' = Failed(c.op)
    /\ UNCHANGED tryVars
    /\ UNCHANGED <<size, currentIndex, options, timer, answer, log, ncalls, last,
                   burst, seq, latest, looped, armed, cur0>>

\* A callback that passes the target captured when the timer was started.
DelayedNextAtStart(stored, atStart) == atStart

\* The argument delayedNext's callback passes to onSwitch (line 58): it reads
\* nextIndex when it runs. atStart is the value nextIndex had when the timer
\* was (re)started.
DelayedNext(stored, atStart) == stored

\* The delay elapses: delayedNext runs its callback (lines 56-59). A pending
\* timer was (re)started by the last next()/back()/cancel() call, a next().
Fire ==
    /\ timer.pending
    /\ timer' = TimerIdle
    /\ LET idx == DelayedNext(nextIndex, last.stored)
       IN  /\ log' = Append(log, Invocation(idx, "timer"))
           /\ currentIndex' = OwnerIndex(idx, currentIndex)
    /\ armed' = FALSE
    /\ UNCHANGED tryVars
    /\ UNCHANGED <<size, options, nextIndex, calls, answer, failure, ncalls, last,
                   burst, seq, latest, looped, cur0>>

\* cancel() (line 61).
Cancel ==
    /\ ncalls < MaxCalls
    /\ timer' = cancel(timer)
    /\ last' = CallRecord("cancel", Undefined)
    /\ armed' = FALSE
    /\ seq' = FALSE
    /\ ncalls' = ncalls + 1
    /\ UNCHANGED tryVars
    /\ UNCHANGED <<size, currentIndex, options, nextIndex, calls, answer, failure,
                   log, burst, latest, looped, cur0>>

\* isCanNext(o): reads the scope and resolves; it writes no iterator state.
IsCanNext(o) ==
    /\ ncalls < MaxCalls
    /\ ncalls' = ncalls + 1
    /\ answer' = [op |-> "isCanNext", loop |-> Truthy(NextLoop(o)),
                  cur |-> currentIndex, res |-> isCanNext(o, size, currentIndex)]
    /\ nextIndex' = AfterQuery(nextIndex, getNextItem(Undefined, size, currentIndex))
    /\ seq' = FALSE
    /\ UNCHANGED tryVars
    /\ UNCHANGED <<size, currentIndex, options, timer, calls, failure, log, last,
                   burst, latest, looped, armed, cur0>>

\* isCanBack().
IsCanBack ==
    /\ ncalls < MaxCalls
    /\ ncalls' = ncalls + 1
    /\ answer' = [op |-> "isCanBack", loop |-> FALSE,
                  cur |-> currentIndex, res |-> isCanBack(size, currentIndex)]
    /\ nextIndex' = AfterQuery(nextIndex, getPrevItem(Undefined, size, currentIndex))
    /\ seq' = FALSE
    /\ UNCHANGED tryVars
    /\ UNCHANGED <<size, currentIndex, options, timer, calls, failure, log, last,
                   burst, latest, looped, armed, cur0>>

\* isCanNext() or isCanBack() whose scope query fails: its promise is
\* rejected and nothing is answered.
QueryFails(op) ==
    /\ ncalls < MaxCalls
    /\ ncalls' = ncalls + 1
    /\ nextIndex' = AfterRejection(nextIndex)
    /\ failure' = Failed(op)
    /\ seq' = FALSE
    /\ UNCHANGED tryVars
    /\ UNCHANGED <<size, currentIndex, options, timer, calls, answer, log, last,
                   burst, latest, looped, armed, cur0>>

NextCall == \E o \in ListIteratorOptions : Next(o)

ResolveCall == \E c \in calls : Resolve(c)

RejectCall == \E c \in calls : Reject(c)

QueryFailure == \E op \in {"isCanNext", "isCanBack"} : QueryFails(op)

IsCanNextCall == \E o \in ListIteratorOptions : IsCanNext(o)

Step ==
    \/ NextCall
    \/ Back
    \/ ResolveCall
    \/ Fire
    \/ Cancel
    \/ IsCanNextCall
    \/ IsCanBack

Spec == Init /\ [][Step]_vars

----------------------------------------------------------------------------
\* Try: one reference, made by Try.of, Try.success or Try.failure, and read
\* by get() and getOrElse().  No list iterator is in use.

TryInit ==
    /\ Init
    /\ size = 0
    /\ options = [delay |-> Undefined, loop |-> Undefined]

CallOf(th) ==
    /\ thunk' = th
    /\ result' = tryOf(th)
    /\ got' = NotCalled
    /\ UNCHANGED iterVars

CallSuccess(v) ==
    /\ thunk' = NoThunk
    /\ result' = trySuccess(v)
    /\ got' = NotCalled
    /\ UNCHANGED iterVars

CallFailure(e) ==
    /\ thunk' = NoThunk
    /\ result' = tryFailure(e)
    /\ got' = NotCalled
    /\ UNCHANGED iterVars

CallGet ==
    /\ result.kind = "return"
    /\ got' = Called("get", tryGet(result.value))
    /\ UNCHANGED <<thunk, result>>
    /\ UNCHANGED iterVars

CallGetOrElse(fallback) ==
    /\ result.kind = "return"
    /\ got' = Called("getOrElse", tryGetOrElse(result.value, fallback))
    /\ UNCHANGED <<thunk, result>>
    /\ UNCHANGED iterVars

TryStep ==
    \/ \E th \in Thunks : CallOf(th)
    \/ \E v \in Value : CallSuccess(v)
    \/ \E e \in Value : CallFailure(e)
    \/ CallGet
    \/ \E fallback \in Value : CallGetOrElse(fallback)

TrySpec == TryInit /\ [][TryStep]_vars

----------------------------------------------------------------------------
\* The event loop runs: a timer that stays pending fires.
FairSpec == Spec /\ WF_vars(Fire)

\* The same handle on a scope whose queries may fail.
FailureStep ==
    \/ Step
    \/ RejectCall
    \/ QueryFailure

FailureSpec == Init /\ [][FailureStep]_vars

----------------------------------------------------------------------------
\* Vocabulary of the properties

\* v is "no move" or an index of a list of sz items.
InRange(v, sz) == v = -1 \/ (0 <= v /\ v <= sz - 1)

\* The backward target of a list that never wraps.
NoWrapPrev(sz, cur) == IF cur = 0 THEN -1 ELSE Min(cur - 1, sz - 1)

\* No call awaits its scope query and no timer is running.
Quiescent == calls = {} /\ ~timer.pending

\* The indices onSwitch has received, in order.
Switched == [i \in 1..Len(log) |-> log[i].idx]

\* The forward candidate of the scope state the most recent call saw.
LastCandidate == getNextItem(last.loop, size, last.cur)

----------------------------------------------------------------------------
\* C1: every index passed to onSwitch is >= 0, in every reachable state.
C1_SwitchIndexNonNegative == \A i \in 1..Len(log) : log[i].idx >= 0

\* C2: on a fresh handle over a scope of size 3 at index 0 (loop false,
\* delay 10), once a single next() has resolved and no timer is left running,
\* onSwitch has been invoked exactly once, with index 1.
C2_SingleNextSwitchesToOne ==
    (/\ ncalls = 1 /\ last.op = "next"
     /\ size = 3 /\ cur0 = 0
     /\ ~Truthy(last.loop) /\ options.delay = {SomeDelay}
     /\ Quiescent)
    => Switched = <<1>>

\* C3: from index 0 with loop false, next() calls made one at a time (each
\* after the previous one resolved and its timer fired) make onSwitch receive
\* 1, 2, ..., size-1 in that order and nothing after that: what it has
\* received is always a prefix of that list, and the whole list once at
\* least `size` calls have run to completion.
C3_SequentialNextVisitsEachIndexOnce ==
    (seq /\ cur0 = 0 /\ size > 0)
    => /\ Len(log) <= size - 1
       /\ \A i \in 1..Len(log) : log[i].idx = i
       /\ (Quiescent /\ ncalls >= size) => Len(log) = size - 1

\* C4: a burst of k >= 1 next() calls made before the timer fires yields
\* exactly one onSwitch invocation, and its index is the forward candidate of
\* the scope state at the last call of the burst (stated for a burst whose
\* last call has a valid candidate, once every call has resolved and no
\* timer is left running).
C4_BurstSwitchesOnceWithLastCandidate ==
    (last.op = "next" /\ LastCandidate >= 0 /\ Quiescent)
    => /\ Len(log) = burst + 1
       /\ log[Len(log)].idx = LastCandidate

\* C5: with an effective loop = true, a next() made while the scope is at its
\* last index (size-1, size > 0) ends in a committed move to index 0: once
\* the call has resolved and no timer is left running, onSwitch has been
\* invoked since the call and the last index it received is 0.
C5_LoopNextAtEndSwitchesToFirst ==
    (/\ last.op = "next" /\ Truthy(last.loop)
     /\ size > 0 /\ last.cur = size - 1
     /\ Quiescent)
    => /\ Len(log) > last.n
       /\ log[Len(log)].idx = 0

\* C6: when the scope's index is 0 and no call has looped, isCanBack()
\* resolves false and a back() call does not invoke onSwitch, whatever
\* next()/back()/cancel() calls came before.
C6_NoBackwardMoveAtFirstIndex ==
    ~looped
    => /\ (answer.op = "isCanBack" /\ answer.cur = 0) => ~answer.res
       /\ \A i \in 1..Len(log) : log[i].by = "back" => log[i].cur # 0

\* C7: a back() made while the stored target is valid and the forward timer
\* is pending invokes onSwitch inside the call with that stored target and
\* cancels the timer: until the next call is made the timer is not pending
\* and that one invocation is the only one since the call.
C7_BackSwitchesAtOnceAndCancelsTimer ==
    (last.op = "back" /\ last.stored >= 0 /\ last.pend)
    => /\ ~timer.pending
       /\ Len(log) = last.n + 1
       /\ log[Len(log)].idx = last.stored
       /\ log[Len(log)].by = "back"

\* A back() found a valid stored target and a pending timer, and has resolved.
C7_Witness ==
    /\ last.op = "back" /\ last.stored >= 0 /\ last.pend
    /\ calls = {}
    /\ Len(log) = last.n + 1

\* C8: a cancel() made while the timer is pending leaves no timer and no
\* onSwitch invocation until a later call; and a next() made after such a
\* cancel() while the stored target is valid starts a timer again, which is
\* pending until it fires and invokes onSwitch once.
C8_CancelDropsSwitchAndNextReschedules ==
    /\ (last.op = "cancel" /\ last.pend)
       => (~timer.pending /\ Len(log) = last.n)
    /\ (last.op = "next" /\ last.cancelled /\ last.stored >= 0)
       => \/ (timer.pending /\ Len(log) = last.n)
          \/ (~timer.pending /\ Len(log) = last.n + 1
              /\ log[Len(log)].by = "timer")

\* A timer was cancelled, the following next() started one again, it fired.
C8_Witness ==
    /\ last.op = "next" /\ last.cancelled /\ last.stored >= 0
    /\ ~timer.pending
    /\ Len(log) = last.n + 1

\* C9: isPending is true exactly when a next() whose candidate is valid has
\* been made and neither a timer fire nor cancel() nor back() came after it.
C9_IsPendingIffValidNextOutstanding == timer.pending <=> armed

\* C10: once every call in flight has resolved, the stored target is the
\* candidate computed by the most recently issued next()/back() call.
C10_StoredTargetIsLatestCallsCandidate ==
    (calls = {} /\ latest # {}) => nextIndex = Val(latest)

\* C11: when a scope query fails during next(), back(), isCanNext() or
\* isCanBack(), the call's promise is rejected and the failure leaves the
\* stored pending target as it was.
C11_QueryFailureRejectsAndKeepsTarget ==
    [][(RejectCall \/ QueryFailure)
       => /\ failure'.outcome = "rejected"
          /\ nextIndex' = nextIndex]_vars

\* A next() failed while a valid target was stored, and the target is there.
C11_Witness ==
    /\ failure.op = "next" /\ failure.outcome = "rejected"
    /\ calls = {} /\ nextIndex >= 0

\* C12: when the delay timer fires, onSwitch is invoked exactly once, with
\* the pending target stored at that moment (not the one stored when the
\* timer was started), and the timer is idle afterwards; and a pending timer
\* does not stay pending forever: it fires unless back() or cancel() stops it.
C12_FireSwitchesOnceToStoredTarget ==
    /\ [][Fire => /\ Len(log') = Len(log) + 1
                  /\ log'[Len(log')].by = "timer"
                  /\ log'[Len(log')].idx = nextIndex
                  /\ ~timer'.pending]_vars
    /\ (timer.pending ~> ~timer.pending)

\* The timer fired after the stored target had changed since its start.
C12_Witness ==
    /\ ~timer.pending /\ last.op = "next" /\ last.stored >= 0
    /\ Len(log) = last.n + 1
    /\ log[Len(log)].by = "timer"
    /\ log[Len(log)].idx # last.stored

\* C13: the stored pending target is -1 before any call and afterwards
\* always -1 or an index 0..size-1 of the size read in the computation that
\* stored it, whatever non-negative current index (in the list or beyond it)
\* and loop value the computation saw.
C13_StoredTargetInRange ==
    /\ InRange(nextIndex, size)
    /\ \A c \in calls : InRange(Candidate(c), c.size)
    /\ ncalls = 0
          => /\ nextIndex = -1
             /\ \A sz \in 0..MaxSize, cur \in 0..MaxSize, loop \in OptBool :
                   /\ InRange(getNextItem(loop, sz, cur), sz)
                   /\ InRange(getPrevItem(loop, sz, cur), sz)

\* next() stored the last index of a list, back() then computed from there.
C13_Witness ==
    /\ size >= 2 /\ last.op = "back" /\ nextIndex = size - 1
    /\ \E c \in calls : c.op = "back" /\ Candidate(c) = size - 2

\* C14: cancel() leaves the stored pending target, the calls in flight and
\* the scope as they are and does not invoke onSwitch; after it no timer is
\* pending.
C14_CancelOnlyStopsTimer ==
    [][Cancel => /\ nextIndex' = nextIndex
                 /\ log' = log
                 /\ calls' = calls
                 /\ currentIndex' = currentIndex
                 /\ ~timer'.pending]_vars

\* cancel() stopped a pending timer while a valid target was stored; the
\* target is still stored and nothing was switched.
C14_Witness ==
    /\ last.op = "cancel" /\ last.pend /\ last.stored >= 0
    /\ nextIndex = last.stored
    /\ Len(log) = last.n
    /\ ~timer.pending

\* C15: isCanNext() and isCanBack() are pure queries: a call leaves the
\* stored pending target, the timer (so isPending), the calls in flight and
\* the scope as they are and does not invoke onSwitch.
C15_QueriesChangeNothing ==
    [][(IsCanNextCall \/ IsCanBack)
       => /\ nextIndex' = nextIndex
          /\ timer' = timer
          /\ log' = log
          /\ calls' = calls
          /\ currentIndex' = currentIndex]_vars

\* A query answered "no" while a timer was pending for a valid stored target
\* at that same index: target and timer are still there.
C15_Witness ==
    /\ answer.op # "none" /\ ~answer.res /\ answer.cur = currentIndex
    /\ timer.pending /\ nextIndex >= 0
    /\ Len(log) = last.n

\* C16: backwards the list never wraps, whatever the options: the value a
\* back() call computes and stores is -1 at index 0 and
\* min(currentIndex-1, size-1) elsewhere, and isCanBack() answers true exactly
\* when that value is >= 0.
C16_BackNeverWraps ==
    /\ \A c \in calls : c.op = "back" => Candidate(c) = NoWrapPrev(c.size, c.cur)
    /\ answer.op = "isCanBack"
          => (answer.res <=> NoWrapPrev(size, answer.cur) >= 0)

\* On a handle constructed with loop = true, isCanBack() answered at index 0
\* of a longer list and a back() call computes its target from index 0.
C16_Witness ==
    /\ options.loop = {TRUE} /\ size >= 2
    /\ answer.op = "isCanBack" /\ answer.cur = 0
    /\ \E c \in calls : c.op = "back" /\ c.cur = 0

\* C17: Try.of(thunk) never throws; it returns a Success holding thunk's
\* return value when thunk returns and a Failure holding the thrown value
\* when thunk throws, and get() on that result returns the value in the
\* first case and throws the stored error in the second.
C17_TryOfCatchesAndGetRethrows ==
    thunk # NoThunk
       => /\ result.kind = "return"
          /\ isSuccess(result.value) <=> thunk.kind = "return"
          /\ isFailure(result.value) <=> thunk.kind = "throw"
          /\ result.value.value = thunk.value
          /\ got.op = "get" => /\ got.kind = thunk.kind
                               /\ got.value = thunk.value

\* The thunk threw, Try.of returned a Failure and get() was called on it.
C17_Witness ==
    /\ thunk.kind = "throw" /\ thunk.value > 0
    /\ result.kind = "return"
    /\ got.op = "get"

\* C18: a next() call (re)starts the timer exactly when the pending target
\* stored before the call is >= 0, and then with the call's delay option,
\* else the constructor's, else 0.  When the stored target is -1 the call
\* leaves the timer alone and invokes nothing: a timer that was idle is
\* still idle, and nothing is switched, until the following call.
C18_NextStartsTimerIffTargetStored ==
    /\ [][\A o \in ListIteratorOptions :
            Next(o) =>
              IF nextIndex >= 0
              THEN /\ timer'.pending
                   /\ timer'.wait = IF o.delay # Undefined THEN Val(o.delay)
                                    ELSE IF options.delay # Undefined
                                         THEN Val(options.delay)
                                         ELSE 0
                   /\ log' = log
              ELSE /\ timer' = timer
                   /\ log' = log]_vars
    /\ []((last.op = "next" /\ last.stored < 0 /\ ~last.pend)
             => (~timer.pending /\ Len(log) = last.n))

\* A next() on a handle with nothing stored found a valid target and its
\* query resolved: no timer is pending and nothing was switched.
C18_Witness ==
    /\ last.op = "next" /\ last.stored < 0 /\ ~last.pend
    /\ calls = {} /\ nextIndex >= 0
    /\ ~timer.pending /\ Len(log) = last.n

\* C19: isCanNext(options) agrees with next(options): it answers true
\* exactly when a next() call with the same options (effective loop: the
\* call's option, else the constructor's) on the same scope state would
\* store a valid target.
C19_IsCanNextAgreesWithNext ==
    answer.op = "isCanNext"
       => (answer.res
             <=> getNextItem(IF answer.loop THEN {TRUE} ELSE Undefined,
                             size, answer.cur) >= 0)

\* C20: back() never moves the cursor forward: without looping, every index
\* back() passes to onSwitch is strictly less than the scope's current index
\* at that moment.
C20_BackNeverMovesForward ==
    ~looped => \A i \in 1..Len(log) :
                   log[i].by = "back" => log[i].idx < log[i].cur

\* C21: every onSwitch invocation is a real move: with an owner that sets
\* the current index to what onSwitch receives, the index passed (by a timer
\* fire or by back()) differs from the scope's current index at the moment of
\* the invocation, so no index is notified twice in a row.
C21_EverySwitchIsAMove ==
    \A i \in 1..Len(log) : log[i].idx # log[i].cur

====
